---- MODULE Spec2Model ----
(***************************************************************************)
(* Model of src/src/sym.rs: the symtypes corpus (Type Table, File Records, *)
(* Export Index), its loader, the structural comparator compare_with /     *)
(* compare_types and the pretty-printer pretty_format_type.                *)
(*                                                                         *)
(* A word (Rust &str / String) is a sequence of one-character strings, so  *)
(* that "the second character" and string concatenation are computed.      *)
(* HashMap<K, V> is a function whose DOMAIN is the set of keys present.    *)
(* Vec indices (usize) are kept 0-based as in the source; the element with *)
(* index i of a Vec v is v[i + 1].                                         *)
(***************************************************************************)
EXTENDS Integers, Sequences, FiniteSets, Bags, TLC

(***************************************************************************)
(* Bounds of the model.                                                    *)
(***************************************************************************)
\* Lines read by one load_dir run, over all of its files.
MaxLoadLines == 3
\* Files one load_dir run of the loader specification opens.
MaxFiles == 2
\* Files of each of the two directories compared.
MaxCmpFiles == 2
\* Cap on the depth of the recursion of compare_types.
MaxDepth == 5
\* Longest token sequence formatted, the unit tests' sequences aside.
MaxFmtLen == 5

(***************************************************************************)
(* Words of the inputs.                                                    *)
(***************************************************************************)
FN == <<"f", "n">>
GN == <<"g", "n">>
HN == <<"h", "n">>
X == <<"x">>
SA == <<"s", "#", "a">>
SB == <<"s", "#", "b">>
SC == <<"s", "#", "c">>
I == <<"i">>
J == <<"j">>

\* The characters str::split_ascii_whitespace splits on.
AsciiWhitespace == {" ", "\t", "\n", "\f", "\r"}

RECURSIVE JoinWords(_)
\* The line that holds the words ws separated by single spaces.
JoinWords(ws) ==
    IF ws = <<>> THEN <<>>
    ELSE IF Len(ws) = 1 THEN ws[1]
    ELSE ws[1] \o <<" ">> \o JoinWords(Tail(ws))

(***************************************************************************)
(* Token model (lines 12-38).                                              *)
(***************************************************************************)
TypeRef(w) == [kind |-> "TypeRef", text |-> w]
Atom(w) == [kind |-> "Atom", text |-> w]

\* Token::as_str
as_str(token) == token.text

\* word.chars().nth(1) == Some('#'), the test of lines 146-153 and 165-172
\* written as a predicate; nth(1) is None for a word of fewer than 2 chars.
HasMarker(word) == Len(word) >= 2 /\ word[2] = "#"

RECURSIVE SkipWs(_)
SkipWs(line) ==
    IF line # <<>> /\ line[1] \in AsciiWhitespace THEN SkipWs(Tail(line)) ELSE line

RECURSIVE TakeWord(_)
TakeWord(line) ==
    IF line = <<>> \/ line[1] \in AsciiWhitespace THEN <<>>
    ELSE <<line[1]>> \o TakeWord(Tail(line))

RECURSIVE split_ascii_whitespace(_)
\* The non-empty maximal runs of non-whitespace characters of line, in order.
split_ascii_whitespace(line) ==
    LET rest == SkipWs(line)
        word == TakeWord(rest)
    IN  IF rest = <<>> THEN <<>>
        ELSE <<word>> \o split_ascii_whitespace(SubSeq(rest, Len(word) + 1, Len(rest)))

\* Lines 143-159: the words after the name, classified.
Tokenize(words) ==
    [k \in 1..Len(words) |->
        IF HasMarker(words[k]) THEN TypeRef(words[k]) ELSE Atom(words[k])]

(***************************************************************************)
(* Type Table merge (lines 186-216).                                       *)
(***************************************************************************)
\* Faulty variant, used to test the properties: compares the lengths alone.
are_tokens_eq_LenOnly(a, b) == Len(a) = Len(b)

are_tokens_eq(a, b) ==
    /\ Len(a) = Len(b)
    /\ \A k \in 1..Len(a) : a[k] = b[k]

\* HashMap::insert
MapPut(m, key, val) ==
    [x \in DOMAIN m \cup {key} |-> IF x = key THEN val ELSE m[x]]

EmptyMap == [x \in {} |-> 0]

\* Faulty variant, used to test the properties: always appends, without looking for an equal variant.
merge_type_NoDedup(tys, name, tokens) ==
    IF name \in DOMAIN tys
    THEN [types |-> MapPut(tys, name, Append(tys[name], tokens)),
          index |-> Len(tys[name])]
    ELSE [types |-> MapPut(tys, name, <<tokens>>), index |-> 0]

\* Faulty variant, used to test the properties: a new variant replaces the last one instead of being appended.
merge_type_Overwrite(tys, name, tokens) ==
    IF name \in DOMAIN tys
    THEN LET variants == tys[name]
             hits == {k \in 1..Len(variants) : are_tokens_eq(tokens, variants[k])}
         IN  IF hits # {}
             THEN [types |-> tys, index |-> (CHOOSE k \in hits : \A h \in hits : k <= h) - 1]
             ELSE [types |-> MapPut(tys, name,
                                [variants EXCEPT ![Len(variants)] = tokens]),
                   index |-> Len(variants) - 1]
    ELSE [types |-> MapPut(tys, name, <<tokens>>), index |-> 0]

\* merge_type: the Type Table after the call and the index returned.
merge_type(tys, name, tokens) ==
    IF name \in DOMAIN tys
    THEN LET variants == tys[name]
             hits == {k \in 1..Len(variants) : are_tokens_eq(tokens, variants[k])}
         IN  IF hits # {}
             THEN [types |-> tys, index |-> (CHOOSE k \in hits : \A h \in hits : k <= h) - 1]
             ELSE [types |-> MapPut(tys, name, Append(variants, tokens)),
                   index |-> Len(variants)]
    ELSE [types |-> MapPut(tys, name, <<tokens>>), index |-> 0]

(***************************************************************************)
(* Loader (lines 109-184).  A loader state is the corpus under             *)
(* construction with the records of the file being read.  The I/O errors   *)
(* of lines 71-89, 112-120 and 127-135 end the load without a corpus and   *)
(* are not part of the model.                                              *)
(***************************************************************************)
\* Faulty variant, used to test the properties: a name of one character is exported too.
IsExportInsert_NoneExports(name) == ~HasMarker(name)

\* Faulty variant, used to test the properties: every declared name is exported.
IsExportInsert_All(name) == TRUE

\* Lines 165-172: Some(ch) with ch != '#'.
IsExportInsert(name) == Len(name) >= 2 /\ name[2] # "#"

\* The history entry of one iteration: the line, the index its file will
\* have in `files`, whether merge_type was called, and the call's arguments
\* and returned index.
Skipped(st, line) ==
    [line |-> line, file |-> Len(st.files), called |-> FALSE,
     name |-> <<>>, tokens |-> <<>>, index |-> 0]

Called(st, line, name, tokens, index) ==
    [line |-> line, file |-> Len(st.files), called |-> TRUE,
     name |-> name, tokens |-> tokens, index |-> index]

\* Lines 161-172: the declaration is merged, recorded and, if its name
\* qualifies, exported.
Declare(st, line, name, tokens) ==
    LET m == merge_type(st.types, name, tokens)
    IN  [st EXCEPT
           !.types = m.types,
           !.records = MapPut(st.records, name, m.index),
           !.exports = IF IsExportInsert(name)
                       THEN MapPut(st.exports, name, Len(st.files))
                       ELSE st.exports,
           !.log = Append(st.log, Called(st, line, name, tokens, m.index))]

\* Faulty variant, used to test the properties: a declaration without tokens is skipped like a blank line.
LoadLineOp_SkipNoTokens(st, line) ==
    LET words == split_ascii_whitespace(line)
    IN  IF Len(words) <= 1 THEN [st EXCEPT !.log = Append(st.log, Skipped(st, line))]
        ELSE Declare(st, line, words[1], Tokenize(Tail(words)))

\* One iteration of the loop of lines 126-173 on one line of the file.
LoadLineOp(st, line) ==
    LET words == split_ascii_whitespace(line)
    IN  IF words = <<>> THEN [st EXCEPT !.log = Append(st.log, Skipped(st, line))]
        ELSE Declare(st, line, words[1], Tokenize(Tail(words)))

\* Lines 177-181.
PushFile(st) ==
    [st EXCEPT !.files = Append(st.files, [path |-> Len(st.files), records |-> st.records]),
               !.records = EmptyMap]

RECURSIVE LoadLines(_, _)
LoadLines(st, lines) ==
    IF lines = <<>> THEN st ELSE LoadLines(LoadLineOp(st, lines[1]), Tail(lines))

\* load_file on a file whose lines are `lines`.
load_file(st, lines) == PushFile(LoadLines([st EXCEPT !.records = EmptyMap], lines))

RECURSIVE load_dir(_, _)
\* load_dir on a directory whose symtypes files are `dir`, in read_dir order.
load_dir(st, dir) ==
    IF dir = <<>> THEN st ELSE load_dir(load_file(st, dir[1]), Tail(dir))

EmptyLoad ==
    [types |-> EmptyMap, exports |-> EmptyMap, files |-> <<>>, records |-> EmptyMap,
     log |-> <<>>]

\* SymCorpus::new (lines 58-66).
SymCorpus_new(dir) ==
    LET st == load_dir(EmptyLoad, dir)
    IN  [types |-> st.types, exports |-> st.exports, files |-> st.files]

(***************************************************************************)
(* Pretty-printer (lines 401-483) and its unit tests (lines 489-682).      *)
(***************************************************************************)
RECURSIVE push_indent(_, _)
\* PushIndentExt::push_indent: `indent` tabs are appended to str.
push_indent(str, indent) ==
    IF indent <= 0 THEN str ELSE push_indent(str \o <<"\t">>, indent - 1)

\* The state of the loop: the lines pushed, the indentation, the pending line.
FormatStart == [res |-> <<>>, indent |-> 0, line |-> <<>>]

\* Faulty variant, used to test the properties: the indentation is decremented without the indent > 0 test.
CloseEarly_NoFloor(st) ==
    [res |-> IF st.line # <<>> THEN Append(st.res, st.line) ELSE st.res,
     indent |-> st.indent - 1,
     line |-> <<>>]

\* Lines 423-434: a closing bracket ends any prior line and reduces indentation.
CloseEarly(st) ==
    [res |-> IF st.line # <<>> THEN Append(st.res, st.line) ELSE st.res,
     indent |-> IF st.indent > 0 THEN st.indent - 1 ELSE st.indent,
     line |-> <<>>]

\* Faulty variant, used to test the properties: the indentation of a new line is pushed for ordinary tokens only.
Emit_IndentWordsOnly(c, t) ==
    LET is_first == c.line = <<>>
        line == IF is_first THEN push_indent(c.line, c.indent) ELSE c.line
    IN  CASE t = <<"{">> ->
               [res |-> Append(c.res, (IF ~is_first THEN c.line \o <<" ">> ELSE c.line) \o <<"{">>),
                indent |-> c.indent + 1, line |-> <<>>]
          [] t = <<"}">> -> [c EXCEPT !.line = line \o <<"}">>]
          [] t = <<";">> -> [c EXCEPT !.res = Append(c.res, c.line \o <<";">>), !.line = <<>>]
          [] t = <<",">> -> [c EXCEPT !.res = Append(c.res, c.line \o <<",">>), !.line = <<>>]
          [] OTHER -> [c EXCEPT !.line = (IF ~is_first THEN line \o <<" ">> ELSE line) \o t]

\* Lines 436-475 on the state c left by the early match.
Emit(c, t) ==
    LET is_first == c.line = <<>>
        line == IF is_first THEN push_indent(c.line, c.indent) ELSE c.line
    IN  CASE t = <<"{">> ->
               [res |-> Append(c.res, (IF ~is_first THEN line \o <<" ">> ELSE line) \o <<"{">>),
                indent |-> c.indent + 1, line |-> <<>>]
          [] t = <<"}">> -> [c EXCEPT !.line = line \o <<"}">>]
          [] t = <<";">> -> [c EXCEPT !.res = Append(c.res, line \o <<";">>), !.line = <<>>]
          [] t = <<",">> -> [c EXCEPT !.res = Append(c.res, line \o <<",">>), !.line = <<>>]
          [] OTHER -> [c EXCEPT !.line = (IF ~is_first THEN line \o <<" ">> ELSE line) \o t]

\* One iteration of the loop of lines 421-476.
FormatToken(st, token) ==
    Emit(IF as_str(token) = <<"}">> THEN CloseEarly(st) ELSE st, as_str(token))

\* Lines 478-482.
FormatEnd(st) == IF st.line # <<>> THEN Append(st.res, st.line) ELSE st.res

RECURSIVE FormatFrom(_, _)
FormatFrom(st, tokens) ==
    IF tokens = <<>> THEN st ELSE FormatFrom(FormatToken(st, tokens[1]), Tail(tokens))

pretty_format_type(tokens) == FormatEnd(FormatFrom(FormatStart, tokens))

\* format_typedef (lines 490-505).
Test_typedef_tokens ==
    <<
       Atom(<<"t", "y", "p", "e", "d", "e", "f">>),
       Atom(<<"u", "n", "s", "i", "g", "n", "e", "d">>), Atom(<<"l", "o", "n", "g">>),
       Atom(<<"l", "o", "n", "g">>), Atom(<<"u", "6", "4">>)
    >>

Test_typedef_pretty ==
    <<

       <<"t", "y", "p", "e", "d", "e", "f", " ", "u", "n", "s", "i", "g", "n", "e", "d", " ", "l", "o", "n", "g", " ", "l", "o", "n", "g", " ", "u", "6", "4">>
    >>

\* format_enum (lines 507-531).
Test_enum_tokens ==
    <<
       Atom(<<"e", "n", "u", "m">>), Atom(<<"t", "e", "s", "t">>), Atom(<<"{">>),
       Atom(<<"V", "A", "L", "U", "E", "1">>), Atom(<<",">>),
       Atom(<<"V", "A", "L", "U", "E", "2">>), Atom(<<",">>),
       Atom(<<"V", "A", "L", "U", "E", "3">>), Atom(<<"}">>)
    >>

Test_enum_pretty ==
    <<
       <<"e", "n", "u", "m", " ", "t", "e", "s", "t", " ", "{">>,
       <<"\t", "V", "A", "L", "U", "E", "1", ",">>,
       <<"\t", "V", "A", "L", "U", "E", "2", ",">>, <<"\t", "V", "A", "L", "U", "E", "3">>,
       <<"}">>
    >>

\* format_struct (lines 533-557).
Test_struct_tokens ==
    <<
       Atom(<<"s", "t", "r", "u", "c", "t">>), Atom(<<"t", "e", "s", "t">>), Atom(<<"{">>),
       Atom(<<"i", "n", "t">>), Atom(<<"i", "v", "a", "l", "u", "e">>), Atom(<<";">>),
       Atom(<<"l", "o", "n", "g">>), Atom(<<"l", "v", "a", "l", "u", "e">>), Atom(<<";">>),
       Atom(<<"}">>)
    >>

Test_struct_pretty ==
    <<
       <<"s", "t", "r", "u", "c", "t", " ", "t", "e", "s", "t", " ", "{">>,
       <<"\t", "i", "n", "t", " ", "i", "v", "a", "l", "u", "e", ";">>,
       <<"\t", "l", "o", "n", "g", " ", "l", "v", "a", "l", "u", "e", ";">>, <<"}">>
    >>

\* format_union (lines 559-583).
Test_union_tokens ==
    <<
       Atom(<<"u", "n", "i", "o", "n">>), Atom(<<"t", "e", "s", "t">>), Atom(<<"{">>),
       Atom(<<"i", "n", "t">>), Atom(<<"i", "v", "a", "l", "u", "e">>), Atom(<<";">>),
       Atom(<<"l", "o", "n", "g">>), Atom(<<"l", "v", "a", "l", "u", "e">>), Atom(<<";">>),
       Atom(<<"}">>)
    >>

Test_union_pretty ==
    <<
       <<"u", "n", "i", "o", "n", " ", "t", "e", "s", "t", " ", "{">>,
       <<"\t", "i", "n", "t", " ", "i", "v", "a", "l", "u", "e", ";">>,
       <<"\t", "l", "o", "n", "g", " ", "l", "v", "a", "l", "u", "e", ";">>, <<"}">>
    >>

\* format_enum_constant (lines 585-595).
Test_enum_constant_tokens ==
    <<
       Atom(<<"7">>)
    >>

Test_enum_constant_pretty ==
    <<
       <<"7">>
    >>

\* format_nested (lines 597-631).
Test_nested_tokens ==
    <<
       Atom(<<"u", "n", "i", "o", "n">>), Atom(<<"n", "e", "s", "t", "e", "d">>),
       Atom(<<"{">>), Atom(<<"s", "t", "r", "u", "c", "t">>), Atom(<<"{">>),
       Atom(<<"i", "n", "t">>), Atom(<<"i", "v", "a", "l", "u", "e", "1">>), Atom(<<";">>),
       Atom(<<"i", "n", "t">>), Atom(<<"i", "v", "a", "l", "u", "e", "2">>), Atom(<<";">>),
       Atom(<<"}">>), Atom(<<";">>), Atom(<<"l", "o", "n", "g">>),
       Atom(<<"l", "v", "a", "l", "u", "e">>), Atom(<<";">>), Atom(<<"}">>)
    >>

Test_nested_pretty ==
    <<
       <<"u", "n", "i", "o", "n", " ", "n", "e", "s", "t", "e", "d", " ", "{">>,
       <<"\t", "s", "t", "r", "u", "c", "t", " ", "{">>,
       <<"\t", "\t", "i", "n", "t", " ", "i", "v", "a", "l", "u", "e", "1", ";">>,
       <<"\t", "\t", "i", "n", "t", " ", "i", "v", "a", "l", "u", "e", "2", ";">>,
       <<"\t", "}", ";">>,
       <<"\t", "l", "o", "n", "g", " ", "l", "v", "a", "l", "u", "e", ";">>, <<"}">>
    >>

\* format_imbalanced (lines 633-660).
Test_imbalanced_tokens ==
    <<
       Atom(<<"s", "t", "r", "u", "c", "t">>),
       Atom(<<"i", "m", "b", "a", "l", "a", "n", "c", "e", "d">>), Atom(<<"{">>),
       Atom(<<"{">>), Atom(<<"}">>), Atom(<<"}">>), Atom(<<"}">>), Atom(<<";">>),
       Atom(<<"{">>), Atom(<<"{">>)
    >>

Test_imbalanced_pretty ==
    <<

       <<"s", "t", "r", "u", "c", "t", " ", "i", "m", "b", "a", "l", "a", "n", "c", "e", "d", " ", "{">>,
       <<"\t", "{">>, <<"\t", "}">>, <<"}">>, <<"}", ";">>, <<"{">>, <<"\t", "{">>
    >>

\* format_typeref (lines 662-682).
Test_typeref_tokens ==
    <<
       Atom(<<"s", "t", "r", "u", "c", "t">>), Atom(<<"t", "y", "p", "e", "r", "e", "f">>),
       Atom(<<"{">>), TypeRef(<<"s", "#", "o", "t", "h", "e", "r">>),
       Atom(<<"o", "t", "h", "e", "r">>), Atom(<<";">>), Atom(<<"}">>)
    >>

Test_typeref_pretty ==
    <<
       <<"s", "t", "r", "u", "c", "t", " ", "t", "y", "p", "e", "r", "e", "f", " ", "{">>,
       <<"\t", "s", "#", "o", "t", "h", "e", "r", " ", "o", "t", "h", "e", "r", ";">>, <<"}">>
    >>

TestTokens ==
    {Test_typedef_tokens, Test_enum_tokens, Test_struct_tokens, Test_union_tokens,
     Test_enum_constant_tokens, Test_nested_tokens, Test_imbalanced_tokens,
     Test_typeref_tokens}

\* The pretty lines the test of the token sequence asserts.
Asserted(tokens) ==
    CASE tokens = Test_typedef_tokens -> Test_typedef_pretty
      [] tokens = Test_enum_tokens -> Test_enum_pretty
      [] tokens = Test_struct_tokens -> Test_struct_pretty
      [] tokens = Test_union_tokens -> Test_union_pretty
      [] tokens = Test_enum_constant_tokens -> Test_enum_constant_pretty
      [] tokens = Test_nested_tokens -> Test_nested_pretty
      [] tokens = Test_imbalanced_tokens -> Test_imbalanced_pretty
      [] tokens = Test_typeref_tokens -> Test_typeref_pretty

(***************************************************************************)
(* Structural comparator (lines 275-396).  The walk of compare_types is    *)
(* kept as an explicit call stack: a frame is one activation, with its     *)
(* loop index i and its is_equal.  w is the state the walk works on.       *)
(***************************************************************************)
\* get_type_tokens (lines 275-287); ok = FALSE stands for either panic.
get_type_tokens(symtypes, file, name) ==
    IF name \in DOMAIN file.records
    THEN IF name \in DOMAIN symtypes.types
         THEN [ok |-> TRUE, tokens |-> symtypes.types[name][file.records[name] + 1]]
         ELSE [ok |-> FALSE, tokens |-> <<>>]
    ELSE [ok |-> FALSE, tokens |-> <<>>]

\* Faulty variant, used to test the properties: every change is pushed, equal to a recorded one or not.
record_type_change_NoDedup(chg, name, tokens, other_tokens) ==
    IF name \in DOMAIN chg
    THEN MapPut(chg, name, Append(chg[name], <<tokens, other_tokens>>))
    ELSE MapPut(chg, name, <<<<tokens, other_tokens>>>>)

\* record_type_change (lines 289-312): the changes after the call.
record_type_change(chg, name, tokens, other_tokens) ==
    IF name \in DOMAIN chg
    THEN IF \E k \in 1..Len(chg[name]) :
               /\ are_tokens_eq(tokens, chg[name][k][1])
               /\ are_tokens_eq(other_tokens, chg[name][k][2])
         THEN chg
         ELSE MapPut(chg, name, Append(chg[name], <<tokens, other_tokens>>))
    ELSE MapPut(chg, name, <<<<tokens, other_tokens>>>>)

\* Faulty variant, used to test the properties: the walk never finds a name processed.
IsProcessed_Never(w, name) == FALSE

\* Lines 323-326: the name was processed in this root's walk.
IsProcessed(w, name) == name \in w.processed

\* Entry of compare_types (lines 323-333) for `name` in the walk of `root`,
\* between corpora a (self) and b (other): returns at once, panics in
\* get_type_tokens, or opens a frame at loop index 0.
EnterType(w, a, b, root, name) ==
    IF IsProcessed(w, name) THEN w
    ELSE LET t == get_type_tokens(a, a.files[root.file + 1], name)
             o == get_type_tokens(b, b.files[root.other_file + 1], name)
             seen == [w EXCEPT !.processed = w.processed \cup {name}]
         IN  IF ~t.ok \/ ~o.ok THEN [seen EXCEPT !.panicked = TRUE]
             ELSE [seen EXCEPT
                     !.stack = Append(w.stack,
                                 [name |-> name, tokens |-> t.tokens,
                                  other_tokens |-> o.tokens, i |-> 0,
                                  is_equal |-> Len(t.tokens) = Len(o.tokens)]),
                     !.visits = Append(w.visits,
                                 [root |-> root.name, name |-> name,
                                  tokens |-> t.tokens, other_tokens |-> o.tokens])]

Min(x, y) == IF x <= y THEN x ELSE y

Top(w) == w.stack[Len(w.stack)]

\* Line 334: the loop of the top activation has positions left.
InLoop(w) == w.stack # <<>> /\ Top(w).i < Min(Len(Top(w).tokens), Len(Top(w).other_tokens))

\* Faulty variant, used to test the properties: a pair of references to the same name is walked but counts as unequal.
CompareTokenOp_RefsUnequal(w, a, b, root) ==
    LET f == Top(w)
        token == f.tokens[f.i + 1]
        other_token == f.other_tokens[f.i + 1]
        same_ref == /\ token.kind = "TypeRef" /\ other_token.kind = "TypeRef"
                    /\ token.text = other_token.text
        eq == token.kind = "Atom" /\ other_token.kind = "Atom" /\ token.text = other_token.text
        advanced == [w EXCEPT !.stack[Len(w.stack)] =
                        [f EXCEPT !.i = f.i + 1, !.is_equal = f.is_equal /\ eq]]
    IN  IF same_ref THEN EnterType(advanced, a, b, root, token.text) ELSE advanced

\* Faulty variant, used to test the properties: is_equal short-circuits, so a pair of references is walked only while the declaration still counts as equal.
CompareTokenOp_ShortCircuit(w, a, b, root) ==
    LET f == Top(w)
        token == f.tokens[f.i + 1]
        other_token == f.other_tokens[f.i + 1]
        same_ref == /\ token.kind = "TypeRef" /\ other_token.kind = "TypeRef"
                    /\ token.text = other_token.text
        eq == IF token.kind = "Atom" /\ other_token.kind = "Atom"
              THEN token.text = other_token.text
              ELSE same_ref
        advanced == [w EXCEPT !.stack[Len(w.stack)] =
                        [f EXCEPT !.i = f.i + 1, !.is_equal = f.is_equal /\ eq]]
    IN  IF f.is_equal /\ same_ref THEN EnterType(advanced, a, b, root, token.text)
        ELSE advanced

\* One iteration of the loop of lines 334-357 in the top activation.
CompareTokenOp(w, a, b, root) ==
    LET f == Top(w)
        token == f.tokens[f.i + 1]
        other_token == f.other_tokens[f.i + 1]
        same_ref == /\ token.kind = "TypeRef" /\ other_token.kind = "TypeRef"
                    /\ token.text = other_token.text
        eq == IF token.kind = "Atom" /\ other_token.kind = "Atom"
              THEN token.text = other_token.text
              ELSE same_ref
        advanced == [w EXCEPT !.stack[Len(w.stack)] =
                        [f EXCEPT !.i = f.i + 1, !.is_equal = f.is_equal /\ eq]]
    IN  IF same_ref THEN EnterType(advanced, a, b, root, token.text) ELSE advanced

\* Lines 358-362: the activation records its change and returns.
FinishTypeOp(w, root) ==
    LET f == Top(w)
        popped == [w EXCEPT !.stack = SubSeq(w.stack, 1, Len(w.stack) - 1)]
    IN  IF ~f.is_equal
        THEN LET chg == record_type_change(w.changes, f.name, f.tokens, f.other_tokens)
             IN  [popped EXCEPT
                    !.changes = chg,
                    !.added = IF chg = w.changes THEN w.added
                              ELSE Append(w.added,
                                     [root |-> root.name, name |-> f.name,
                                      tokens |-> f.tokens, other_tokens |-> f.other_tokens])]
        ELSE popped

\* The messages of lines 376 and 386, and the section print_type_change
\* writes for a change, up to the diff of the two renderings (lines 685-688).
PresentInANotB(name) == [msg |-> "present in A but not in B", name |-> name]

PresentInBNotA(name) == [msg |-> "present in B but not in A", name |-> name]

TypeChange(name, tokens, other_tokens) ==
    [msg |-> "change", name |-> name,
     pretty |-> pretty_format_type(tokens), other_pretty |-> pretty_format_type(other_tokens)]

\* Faulty variant, used to test the properties: the second pass iterates and tests the wrong indexes.
OnlyInB_Swapped(a, b) == DOMAIN a.exports \ DOMAIN b.exports

\* Lines 382-389: the exports of B the second pass reports.
OnlyInB(a, b) == DOMAIN b.exports \ DOMAIN a.exports

\* Lines 369-378: the export is walked iff B has it.
IsShared(b, name) == name \in DOMAIN b.exports

(***************************************************************************)
(* Inputs of the comparator specification: the symtypes files a directory  *)
(* can hold.                                                               *)
(***************************************************************************)
FileA ==
    <<JoinWords(<<SA, SA, I>>), JoinWords(<<SB, SA>>),
      JoinWords(<<FN, SA, SB>>), JoinWords(<<GN, SB>>)>>

FileB ==
    <<JoinWords(<<SA, SA, J>>), JoinWords(<<SB, SA>>),
      JoinWords(<<FN, SA, SB, I>>), JoinWords(<<GN, SB>>), JoinWords(<<HN, I, SA>>)>>

\* s#c is referenced and declared nowhere; the second line is blank.
FileC ==
    <<JoinWords(<<SA, SB>>), <<>>, JoinWords(<<SB, I, SA>>), JoinWords(<<GN, SB, SA>>),
      JoinWords(<<HN, J, SA, SC>>), JoinWords(<<X, I>>)>>

CmpFiles == {FileA, FileB, FileC}

RECURSIVE SeqsUpTo(_, _)
\* The sequences of at most n elements of S.
SeqsUpTo(S, n) ==
    IF n = 0 THEN {<<>>}
    ELSE LET shorter == SeqsUpTo(S, n - 1)
         IN  shorter \cup {Append(q, x) : q \in {r \in shorter : Len(r) = n - 1}, x \in S}

CmpDirs == SeqsUpTo(CmpFiles, MaxCmpFiles)

\* The token sequences formatted.
FmtTokens == {Atom(<<"{">>), Atom(<<"}">>), Atom(<<";">>), Atom(<<",">>), Atom(I), TypeRef(SA)}

FmtInputs == SeqsUpTo(FmtTokens, MaxFmtLen) \cup TestTokens

(***************************************************************************)
(* Inputs of the loader specification.                                     *)
(***************************************************************************)
NameWords == {FN, X, SA}
Bodies == {<<>>, <<I>>, <<SA>>, <<I, SA>>}
BlankLines == {<<>>, <<"\t", " ">>}
PaddedLines == {<<" ">> \o FN \o <<" ", "\t">> \o I \o <<" ">>}
InputLines ==
    {JoinWords(<<n>> \o b) : n \in NameWords, b \in Bodies} \cup BlankLines \cup PaddedLines

(***************************************************************************)
(* State.                                                                  *)
(***************************************************************************)
VARIABLES
    types,      \* SymCorpus.types of the corpus loaded, `self` of compare_with
    exports,    \* SymCorpus.exports
    files,      \* SymCorpus.files
    records,    \* load_file's local `records`
    pc,         \* "dir": in load_dir, between files; "file": in load_file's loop
    nlines,     \* lines read so far by this load_dir run
    log,        \* history: per line read, the merge_type call made and its result
    other,      \* compare_with's `other` corpus
    cpc,        \* position in compare_with: "idle", "exportsA", "exportsB",
                \* "print", "done", "panic"
    todo,       \* exports of self the loop of line 367 has yet to yield
    root,       \* the export walked: its name and the indices of its two files
    walk,       \* processed, the call stack of compare_types, changes; history:
                \* visits (types resolved), added (changes pushed)
    out,        \* bag of what was printed
    fmt         \* pretty_format_type: tokens, loop position pos, res, indent,
                \* line; pc "idle", "loop" or "done"

vars ==
    <<types, exports, files, records, pc, nlines, log, other, cpc, todo, root, walk, out, fmt>>

loadVars == <<types, exports, files, records, pc, nlines, log>>

cmpVars == <<other, cpc, todo, root, walk, out>>

LoadState ==
    [types |-> types, exports |-> exports, files |-> files, records |-> records, log |-> log]

Self == [types |-> types, exports |-> exports, files |-> files]

NoCorpus == [types |-> EmptyMap, exports |-> EmptyMap, files |-> <<>>]

NoRoot == [name |-> <<>>, file |-> 0, other_file |-> 0]

\* Line 365, and the empty walk state.
NoWalk ==
    [processed |-> {}, stack |-> <<>>, changes |-> EmptyMap, panicked |-> FALSE,
     visits |-> <<>>, added |-> <<>>]

CmpIdle ==
    /\ other = NoCorpus
    /\ cpc = "idle"
    /\ todo = {}
    /\ root = NoRoot
    /\ walk = NoWalk
    /\ out = EmptyBag

FmtIdleState == [tokens |-> <<>>, pos |-> 0, pc |-> "idle"] @@ FormatStart

FmtIdle == fmt = FmtIdleState

LoadInit ==
    /\ types = EmptyMap
    /\ exports = EmptyMap
    /\ files = <<>>
    /\ records = EmptyMap
    /\ pc = "dir"
    /\ nlines = 0
    /\ log = <<>>

Init == LoadInit /\ CmpIdle /\ FmtIdle

\* load_dir calls load_file on the next symtypes file (lines 101-102, 109-124).
OpenFile ==
    /\ pc = "dir"
    /\ Len(files) < MaxFiles
    /\ pc' = "file"
    /\ records' = EmptyMap
    /\ UNCHANGED <<types, exports, files, nlines, log, cmpVars, fmt>>

\* One line of the file is read and processed (lines 126-173).
LoadLine(line) ==
    /\ pc = "file"
    /\ nlines < MaxLoadLines
    /\ LET st == LoadLineOp(LoadState, line)
       IN  /\ types' = st.types
           /\ exports' = st.exports
           /\ records' = st.records
           /\ log' = st.log
    /\ nlines' = nlines + 1
    /\ UNCHANGED <<files, pc, cmpVars, fmt>>

\* End of the file: the File Record is pushed (lines 177-183).
EndFile ==
    /\ pc = "file"
    /\ files' = PushFile(LoadState).files
    /\ records' = EmptyMap
    /\ pc' = "dir"
    /\ UNCHANGED <<types, exports, nlines, log, cmpVars, fmt>>

Next ==
    \/ OpenFile
    \/ \E line \in InputLines : LoadLine(line)
    \/ EndFile

Spec == Init /\ [][Next]_vars

(***************************************************************************)
(* compare_with on two loaded corpora.                                     *)
(***************************************************************************)
CmpInit ==
    /\ \E dirA \in CmpDirs, dirB \in CmpDirs :
          LET a == SymCorpus_new(dirA)
          IN  /\ types = a.types
              /\ exports = a.exports
              /\ files = a.files
              /\ other = SymCorpus_new(dirB)
    /\ records = EmptyMap
    /\ pc = "dir"
    /\ nlines = 0
    /\ log = <<>>
    /\ cpc = "exportsA"
    /\ todo = DOMAIN exports
    /\ root = NoRoot
    /\ walk = NoWalk
    /\ out = EmptyBag
    /\ FmtIdle

\* The walk of the current root is over (or none was started).
Walked == walk.stack = <<>> /\ ~walk.panicked

\* One iteration of the loop of lines 367-379 up to the call of
\* compare_types, in the iteration order of the HashMap: any export left.
CompareExport ==
    /\ cpc = "exportsA"
    /\ Walked
    /\ \E name \in todo :
          /\ todo' = todo \ {name}
          /\ IF IsShared(other, name)
             THEN LET r == [name |-> name, file |-> exports[name],
                            other_file |-> other.exports[name]]
                      w == EnterType([walk EXCEPT !.processed = {}], Self, other, r, name)
                  IN  /\ root' = r
                      /\ walk' = w
                      /\ cpc' = IF w.panicked THEN "panic" ELSE cpc
                      /\ out' = out
             ELSE /\ out' = out (+) SetToBag({PresentInANotB(name)})
                  /\ UNCHANGED <<root, walk, cpc>>
    /\ UNCHANGED <<loadVars, other, fmt>>

\* One iteration of the token loop of the innermost compare_types.
CompareToken ==
    /\ cpc = "exportsA"
    /\ InLoop(walk)
    /\ LET w == CompareTokenOp(walk, Self, other, root)
       IN  /\ Len(w.stack) <= MaxDepth
           /\ walk' = w
           /\ cpc' = IF w.panicked THEN "panic" ELSE cpc
    /\ UNCHANGED <<loadVars, other, todo, root, out, fmt>>

\* The innermost compare_types leaves its loop and returns.
FinishType ==
    /\ cpc = "exportsA"
    /\ walk.stack # <<>>
    /\ ~InLoop(walk)
    /\ walk' = FinishTypeOp(walk, root)
    /\ UNCHANGED <<loadVars, other, cpc, todo, root, out, fmt>>

\* The loop of lines 382-389, after the loop over the exports of A.
ReportOnlyInB ==
    /\ cpc = "exportsA"
    /\ Walked
    /\ todo = {}
    /\ out' = out (+) SetToBag({PresentInBNotA(name) : name \in OnlyInB(Self, other)})
    /\ cpc' = "print"
    /\ UNCHANGED <<loadVars, other, todo, root, walk, fmt>>

\* The loop of lines 391-395.
PrintChanges ==
    /\ cpc = "print"
    /\ out' = out (+) SetToBag(UNION {
                  {TypeChange(name, walk.changes[name][k][1], walk.changes[name][k][2]) :
                     k \in 1..Len(walk.changes[name])} : name \in DOMAIN walk.changes})
    /\ cpc' = "done"
    /\ UNCHANGED <<loadVars, other, todo, root, walk, fmt>>

CmpNext ==
    \/ CompareExport
    \/ CompareToken
    \/ FinishType
    \/ ReportOnlyInB
    \/ PrintChanges

SpecCmp == CmpInit /\ [][CmpNext]_vars

\* compare_with is sequential code: it runs as long as it has a step to take.
SpecCmpFair == SpecCmp /\ WF_vars(CmpNext)

(***************************************************************************)
(* pretty_format_type on one token sequence.                               *)
(***************************************************************************)
FmtInit ==
    /\ LoadInit
    /\ CmpIdle
    /\ \E tokens \in FmtInputs : fmt = [tokens |-> tokens, pos |-> 0, pc |-> "loop"] @@ FormatStart

FmtLoopState == [res |-> fmt.res, indent |-> fmt.indent, line |-> fmt.line]

\* One iteration of the loop of lines 421-476.
FormatStep ==
    /\ fmt.pc = "loop"
    /\ fmt.pos < Len(fmt.tokens)
    /\ fmt' = [tokens |-> fmt.tokens, pos |-> fmt.pos + 1, pc |-> "loop"]
                @@ FormatToken(FmtLoopState, fmt.tokens[fmt.pos + 1])
    /\ UNCHANGED <<loadVars, cmpVars>>

\* Lines 478-482: the pending line is flushed and res returned.
FormatReturn ==
    /\ fmt.pc = "loop"
    /\ fmt.pos = Len(fmt.tokens)
    /\ fmt' = [fmt EXCEPT !.res = FormatEnd(FmtLoopState), !.pc = "done"]
    /\ UNCHANGED <<loadVars, cmpVars>>

FmtNext == FormatStep \/ FormatReturn

SpecFmt == FmtInit /\ [][FmtNext]_vars

(***************************************************************************)
(* Claims on the Type Table and the loader, checked under Spec.            *)
(***************************************************************************)
\* The calls of merge_type made so far, in order.
Calls == {k \in 1..Len(log) : log[k].called}

\* Structural equality as the data model states it: same length and
\* pairwise tokens of the same kind and text.
StructEq(a, b) ==
    /\ Len(a) = Len(b)
    /\ \A k \in 1..Len(a) : a[k].kind = b[k].kind /\ a[k].text = b[k].text

\* C1: merging a sequence for a name and later a structurally equal one for
\* the same name returns the same index and adds no variant; a sequence that
\* differs from every variant of the name gets an index no earlier merge of
\* that name returned, 0 when the name was unseen.
C1_MergeIdempotent ==
    /\ \A a, b \in Calls :
          log[a].name = log[b].name =>
             (StructEq(log[a].tokens, log[b].tokens) <=> log[a].index = log[b].index)
    /\ \A a \in Calls :
          /\ (\A b \in Calls : b < a => log[b].name # log[a].name) => log[a].index = 0
          /\ log[a].name \in DOMAIN types
          /\ Len(types[log[a].name]) =
                Cardinality({log[b].tokens : b \in {c \in Calls : log[c].name = log[a].name}})

C1_Witness ==
    \E a, b, c \in Calls :
       /\ a < b /\ b < c
       /\ log[a].name = log[b].name /\ log[b].name = log[c].name
       /\ log[a].tokens = log[b].tokens /\ log[a].index = log[b].index
       /\ log[c].tokens # log[a].tokens /\ log[c].index = 1

NoEqualVariants ==
    \A n \in DOMAIN types :
       \A a, b \in 1..Len(types[n]) : a # b => ~StructEq(types[n][a], types[n][b])

VariantsKept ==
    \A n \in DOMAIN types :
       /\ n \in DOMAIN types'
       /\ Len(types'[n]) >= Len(types[n])
       /\ \A k \in 1..Len(types[n]) : types'[n][k] = types[n][k]

\* C2: no two variants of a name are structurally equal, and every variant
\* stays at its index with its tokens across every step of the loader.
C2_VariantsDistinctAndKept == []NoEqualVariants /\ [][VariantsKept]_vars

C2_Witness ==
    /\ Len(files) = 1
    /\ \E n \in DOMAIN types : Len(types[n]) = 2 /\ Len(types[n][1]) = Len(types[n][2])

\* The step reads one line; Read is the history entry it adds.
ReadsLine == Len(log') = Len(log) + 1

Read == log'[Len(log')]

\* C7 as claimed: every declared name, of any length, enters the Export Index
\* with the file being loaded iff its second character is not '#'.
C7_ExportIffNotMarked ==
    [][ReadsLine /\ Read.called =>
          IF HasMarker(Read.name)
          THEN exports' = exports
          ELSE exports' = MapPut(exports, Read.name, Len(files))]_vars

IsBlank(line) == \A k \in 1..Len(line) : line[k] \in AsciiWhitespace

\* The line holds one word: a declared name and nothing after it.
NameOnly(line) ==
    /\ ~IsBlank(line)
    /\ \A a, b, c \in 1..Len(line) :
          a < b /\ b < c /\ line[b] \in AsciiWhitespace =>
             line[a] \in AsciiWhitespace \/ line[c] \in AsciiWhitespace

\* C8 as claimed: blank lines and lines with a name but no tokens change
\* neither the Type Table nor the File Record nor the Export Index.
C8_MalformedSkipped ==
    [][ReadsLine /\ (IsBlank(Read.line) \/ NameOnly(Read.line)) =>
          UNCHANGED <<types, records, exports>>]_vars

\* C8 amended: a blank line changes nothing; a line with a name and no tokens
\* is merged as a declaration with the empty token sequence.
C8_BlankSkippedNameOnlyMerged ==
    [][ReadsLine =>
          /\ IsBlank(Read.line) => ~Read.called /\ UNCHANGED <<types, records, exports>>
          /\ NameOnly(Read.line) =>
                /\ Read.called /\ Read.tokens = <<>>
                /\ Read.name \in DOMAIN types' /\ Read.name \in DOMAIN records'
                /\ records'[Read.name] = Read.index
                /\ Read.index < Len(types'[Read.name])
                /\ types'[Read.name][Read.index + 1] = <<>>
                /\ \A n \in DOMAIN types : n # Read.name => types'[n] = types[n]]_vars

C8_Witness ==
    \E a, b \in 1..Len(log) :
       /\ IsBlank(log[a].line) /\ log[a].line # <<>>
       /\ NameOnly(log[b].line) /\ log[b].index = 1
       /\ log[b].name \in DOMAIN records /\ records[log[b].name] = 1

\* The lines of the file with index f that declare name, as positions of log.
Declaring(f, name) == {k \in Calls : log[k].file = f /\ log[k].name = name}

\* The entries of recs, the File Record of the file with index f, resolve:
\* the Type Table has the name, the index is within its variants, and the
\* variant is the token sequence of the last line of the file declaring it.
RecordsResolve(recs, f) ==
    \A name \in DOMAIN recs :
       /\ name \in DOMAIN types
       /\ recs[name] < Len(types[name])
       /\ Declaring(f, name) # {}
       /\ LET last == CHOOSE k \in Declaring(f, name) : \A j \in Declaring(f, name) : j <= k
          IN  StructEq(types[name][recs[name] + 1], log[last].tokens)

\* The Export Index entries point to a file pushed whose File Record has the
\* export; while a file is read, its exports point to the index it will get.
ExportsResolve ==
    \A name \in DOMAIN exports :
       IF exports[name] < Len(files)
       THEN name \in DOMAIN files[exports[name] + 1].records
       ELSE pc = "file" /\ exports[name] = Len(files) /\ name \in DOMAIN records

\* get_type_tokens finds the declaration of every name of every File Record,
\* and of every export in the file compare_with takes for it.
LookupsSucceed ==
    /\ \A f \in 1..Len(files) :
          \A name \in DOMAIN files[f].records :
             get_type_tokens(Self, files[f], name).ok
    /\ pc = "dir" =>
          \A name \in DOMAIN exports :
             get_type_tokens(Self, files[exports[name] + 1], name).ok

\* C12: after any number of files loaded, every File Record entry has its
\* name in the Type Table with an index inside the variant list, the variant
\* being structurally equal to the tokens of the last line of that file
\* declaring the name; every Export Index entry points to an existing file
\* whose File Record has the export; so resolving an export root or a name
\* of a File Record never fails.
C12_RecordsAndExportsResolve ==
    /\ \A f \in 1..Len(files) : RecordsResolve(files[f].records, f - 1)
    /\ pc = "file" => RecordsResolve(records, Len(files))
    /\ ExportsResolve
    /\ LookupsSucceed

\* Two files loaded: a name declared twice in the first, the last line
\* winning, and again in the second with the tokens of the first line, the
\* Export Index pointing to the second file.
C12_Witness ==
    /\ pc = "dir"
    /\ Len(files) = 2
    /\ \E name \in DOMAIN exports :
          /\ exports[name] = 1
          /\ name \in DOMAIN files[1].records /\ files[1].records[name] = 1
          /\ name \in DOMAIN files[2].records /\ files[2].records[name] = 0
          /\ Cardinality(Declaring(0, name)) = 2

(***************************************************************************)
(* Claims on compare_with, checked under SpecCmp and SpecCmpFair.          *)
(***************************************************************************)
SelfCompare == other = Self

Printed == BagToSet(out)

NoPresenceReport == \A m \in Printed : m.msg = "change"

\* The type references of the declaration `file` selects for name.
RefsOf(c, file, name) ==
    IF name \in DOMAIN file.records /\ name \in DOMAIN c.types
    THEN LET tokens == c.types[name][file.records[name] + 1]
         IN  {tokens[k].text : k \in {j \in 1..Len(tokens) : tokens[j].kind = "TypeRef"}}
    ELSE {}

RECURSIVE Reachable(_, _, _)
\* The names reachable from the names S through the declarations of file.
Reachable(c, file, S) ==
    LET more == S \cup UNION {RefsOf(c, file, name) : name \in S}
    IN  IF more = S THEN S ELSE Reachable(c, file, more)

\* Every type an export reaches is declared in the export's file.
RefsDeclared(c) ==
    \A name \in DOMAIN c.exports :
       LET file == c.files[c.exports[name] + 1]
       IN  Reachable(c, file, {name}) \subseteq DOMAIN file.records

\* C3 as claimed: compare_with of any loaded corpus with itself completes,
\* with no Change Record and no export reported on one side only.
C3_SelfCompareCompletes ==
    SelfCompare =>
       /\ cpc # "panic"
       /\ walk.changes = EmptyMap
       /\ NoPresenceReport

\* What does hold of compare_with of a loaded corpus with itself: it never
\* holds a Change Record nor a one-sided export; it completes when every type
\* an export reaches is declared in the export's file, and panics otherwise.
C3_SelfCompareClean ==
    SelfCompare =>
       /\ walk.changes = EmptyMap
       /\ NoPresenceReport
       /\ cpc = "panic" => ~RefsDeclared(Self)
       /\ cpc = "done" => RefsDeclared(Self)
       /\ RefsDeclared(Self) => cpc = "done" \/ ENABLED CmpNext

C3_Witness ==
    /\ SelfCompare
    /\ cpc = "done"
    /\ Cardinality(DOMAIN exports) >= 2
    /\ \E k \in 1..Len(walk.visits) :
          TypeRef(walk.visits[k].name) \in
             {walk.visits[k].tokens[j] : j \in 1..Len(walk.visits[k].tokens)}

VisitOnce ==
    \A a, b \in 1..Len(walk.visits) :
       a # b => ~(/\ walk.visits[a].root = walk.visits[b].root
                  /\ walk.visits[a].name = walk.visits[b].name)

AddOnce ==
    \A a, b \in 1..Len(walk.added) : a # b => walk.added[a] # walk.added[b]

\* The recursion is never deeper than the names processed in the root's walk.
DepthBounded ==
    /\ Len(walk.stack) <= Cardinality(walk.processed)
    /\ Len(walk.stack) < MaxDepth

Terminated == cpc \in {"done", "panic"}

\* C4: the walk of every root, cyclic type graphs included, ends; it resolves
\* each name at most once per root and pushes no change twice.
C4_CyclicWalkTerminates == <>Terminated /\ [](VisitOnce /\ AddOnce /\ DepthBounded)

\* A type that references itself was walked and its change recorded.
C4_Witness ==
    /\ cpc = "done"
    /\ \E k \in 1..Len(walk.added) :
          /\ TypeRef(walk.added[k].name) \in
                {walk.added[k].tokens[j] : j \in 1..Len(walk.added[k].tokens)}
          /\ \E v \in 1..Len(walk.visits) :
                /\ walk.visits[v].root = walk.added[k].root
                /\ walk.visits[v].name # walk.added[k].name
                /\ TypeRef(walk.added[k].name) \in
                      {walk.visits[v].tokens[j] : j \in 1..Len(walk.visits[v].tokens)}

\* The two sequences differ in length, or at some position in token kind, in
\* the text of an atom or in the target of a reference.
Differs(a, b) ==
    \/ Len(a) # Len(b)
    \/ \E k \in 1..Min(Len(a), Len(b)) : a[k].kind # b[k].kind \/ a[k].text # b[k].text

\* How many recorded changes of name hold the pair (a, b).
TimesRecorded(name, a, b) ==
    IF name \in DOMAIN walk.changes
    THEN Cardinality({k \in 1..Len(walk.changes[name]) : walk.changes[name][k] = <<a, b>>})
    ELSE 0

\* C5: once all shared exports are walked, every visited name whose two
\* sequences differ has its pair among the changes of the name exactly once.
C5_ChangeRecordedOnce ==
    (cpc \in {"print", "done"} \/ (cpc = "exportsA" /\ todo = {} /\ Walked)) =>
       \A k \in 1..Len(walk.visits) :
          LET v == walk.visits[k]
          IN  Differs(v.tokens, v.other_tokens) =>
                 TimesRecorded(v.name, v.tokens, v.other_tokens) = 1

\* Two roots reached the same name with the same pair of differing sequences.
C5_Witness ==
    /\ cpc = "done"
    /\ \E a, b \in 1..Len(walk.visits) :
          /\ walk.visits[a].root # walk.visits[b].root
          /\ walk.visits[a].name = walk.visits[b].name
          /\ walk.visits[a].tokens = walk.visits[b].tokens
          /\ walk.visits[a].other_tokens = walk.visits[b].other_tokens
          /\ Differs(walk.visits[a].tokens, walk.visits[a].other_tokens)
          /\ Len(walk.changes[walk.visits[a].name]) = 1

OnlyA == DOMAIN exports \ DOMAIN other.exports

OnlyB == DOMAIN other.exports \ DOMAIN exports

\* No walk was started for the export and nothing came of it.
NotCompared(name) ==
    /\ root.name # name
    /\ \A k \in 1..Len(walk.visits) : walk.visits[k].root # name /\ walk.visits[k].name # name
    /\ \A k \in 1..Len(walk.added) : walk.added[k].root # name
    /\ name \notin DOMAIN walk.changes
    /\ \A m \in Printed : m.msg = "change" => m.name # name

\* C6: an export of A alone is reported once as present in A but not in B, an
\* export of B alone once as present in B but not in A, when compare_with
\* has made its passes; neither is ever walked or resolved.
C6_PresenceOnly ==
    /\ \A name \in OnlyA :
          /\ CopiesIn(PresentInANotB(name), out) = IF name \in todo THEN 0 ELSE 1
          /\ CopiesIn(PresentInBNotA(name), out) = 0
          /\ NotCompared(name)
    /\ \A name \in OnlyB :
          /\ CopiesIn(PresentInBNotA(name), out) = IF cpc \in {"print", "done"} THEN 1 ELSE 0
          /\ CopiesIn(PresentInANotB(name), out) = 0
          /\ NotCompared(name)

C6_Witness ==
    /\ cpc = "done"
    /\ OnlyA # {} /\ OnlyB # {}
    /\ walk.visits # <<>>
    /\ \A name \in OnlyA : PresentInANotB(name) \in Printed
    /\ \A name \in OnlyB : PresentInBNotA(name) \in Printed

\* Both sequences hold a type reference to the same name at position k
\* (1-based), a position below the shorter of the two lengths.
SameRefAt(a, b, k) ==
    /\ k \in 1..Min(Len(a), Len(b))
    /\ a[k].kind = "TypeRef" /\ b[k].kind = "TypeRef"
    /\ a[k].text = b[k].text

\* The names a declaration's loop recurses into.
SameRefs(a, b) == {a[k].text : k \in {j \in 1..Min(Len(a), Len(b)) : SameRefAt(a, b, j)}}

\* The step is one iteration of the token loop; Cur is the activation it
\* runs in and Pos the (1-based) position it compares.
TokenStep == InLoop(walk) /\ walk' # walk

Cur == Top(walk)

Pos == Cur.i + 1

\* compare_types was called for name by this step: the name is processed
\* afterwards and, unless it was already, the call resolved the two
\* declarations root's files select for it and opened its loop, or panicked.
RecursedInto(name) ==
    /\ name \in walk'.processed
    /\ name \in walk.processed =>
          /\ Len(walk'.stack) = Len(walk.stack)
          /\ walk'.visits = walk.visits
          /\ ~walk'.panicked
    /\ name \notin walk.processed =>
          \/ walk'.panicked /\ walk'.visits = walk.visits
          \/ /\ ~walk'.panicked
             /\ Len(walk'.stack) = Len(walk.stack) + 1
             /\ Top(walk').name = name /\ Top(walk').i = 0
             /\ Len(walk'.visits) = Len(walk.visits) + 1
             /\ walk'.visits[Len(walk'.visits)].root = root.name
             /\ walk'.visits[Len(walk'.visits)].name = name

\* The step called nothing.
NotRecursed ==
    /\ walk'.processed = walk.processed
    /\ Len(walk'.stack) = Len(walk.stack)
    /\ walk'.visits = walk.visits
    /\ ~walk'.panicked

\* Every iteration recurses exactly when it faces two references to the same
\* name, whatever the lengths and whatever is_equal has become.
RecursesPerPosition ==
    TokenStep =>
       IF SameRefAt(Cur.tokens, Cur.other_tokens, Pos)
       THEN RecursedInto(Cur.tokens[Pos].text)
       ELSE NotRecursed

\* The pair of sequences is among the recorded changes of name.
Recorded(name, a, b) ==
    /\ name \in DOMAIN walk.changes
    /\ \E k \in 1..Len(walk.changes[name]) : walk.changes[name][k] = <<a, b>>

\* When the walks started have returned: every name a visited declaration
\* recurses into was visited in the same root's walk, and the visited
\* declarations that differ are recorded, the referencing one and the
\* referenced one alike.
NestedRecorded ==
    Walked =>
       \A k \in 1..Len(walk.visits) :
          LET v == walk.visits[k]
          IN  /\ Differs(v.tokens, v.other_tokens) =>
                    Recorded(v.name, v.tokens, v.other_tokens)
              /\ \A n \in SameRefs(v.tokens, v.other_tokens) :
                    \E j \in 1..Len(walk.visits) :
                       LET u == walk.visits[j]
                       IN  /\ u.root = v.root /\ u.name = n
                           /\ Differs(u.tokens, u.other_tokens) =>
                                 Recorded(n, u.tokens, u.other_tokens)

\* Nothing else is recursed into: a visited name is the root or a name some
\* declaration visited before it in the same root's walk recurses into.
OnlySameRefsVisited ==
    \A k \in 1..Len(walk.visits) :
       LET u == walk.visits[k]
       IN  \/ u.name = u.root
           \/ \E j \in 1..(k - 1) :
                 /\ walk.visits[j].root = u.root
                 /\ u.name \in SameRefs(walk.visits[j].tokens, walk.visits[j].other_tokens)

\* C11: in a root's walk, every position below the shorter length at which
\* both sides reference the same name is recursed into, also when the lengths
\* differ or another position of the declaration is unequal, so a changed
\* nested type is recorded along with the changed outer declaration;
\* references to different names and an atom facing a reference are not
\* recursed into.
C11_RecursesPerPosition ==
    /\ [][RecursesPerPosition]_vars
    /\ [](NestedRecorded /\ OnlySameRefsVisited)

\* A declaration of different lengths with an unequal earlier position was
\* recorded together with the changed type it references at a later position,
\* whose own reference faces one to another name that the walk left alone.
C11_Witness ==
    /\ cpc = "done"
    /\ \E k, j \in 1..Len(walk.visits) :
          LET v == walk.visits[k]
              u == walk.visits[j]
          IN  /\ Len(v.tokens) # Len(v.other_tokens)
              /\ v.tokens[1] # v.other_tokens[1]
              /\ SameRefAt(v.tokens, v.other_tokens, 2)
              /\ u.root = v.root /\ u.name = v.tokens[2].text /\ u.name # v.name
              /\ Recorded(v.name, v.tokens, v.other_tokens)
              /\ Recorded(u.name, u.tokens, u.other_tokens)
              /\ u.tokens[1].kind = "TypeRef" /\ u.other_tokens[1].kind = "TypeRef"
              /\ u.tokens[1].text # u.other_tokens[1].text
              /\ \A x \in 1..Len(walk.visits) :
                    walk.visits[x].root = v.root =>
                       walk.visits[x].name # u.other_tokens[1].text

(***************************************************************************)
(* Claims on pretty_format_type, checked under SpecFmt.                    *)
(***************************************************************************)
Tabs(n) == [k \in 1..n |-> "\t"]

Flushed(st) == IF st.line # <<>> THEN Append(st.res, st.line) ELSE st.res

\* The rules of the claim on one token text t.  indentAll: '{', ';' and ','
\* too are put after the indentation when the line is empty.
Rule(st, t, indentAll) ==
    LET start == IF indentAll THEN Tabs(st.indent) ELSE <<>>
    IN  CASE t = <<"{">> ->
               [res |-> Append(st.res, (IF st.line = <<>> THEN start ELSE st.line \o <<" ">>) \o t),
                indent |-> st.indent + 1, line |-> <<>>]
          [] t = <<"}">> ->
               LET level == IF st.indent = 0 THEN 0 ELSE st.indent - 1
               IN  [res |-> Flushed(st), indent |-> level, line |-> Tabs(level) \o t]
          [] t \in {<<";">>, <<",">>} ->
               [res |-> Append(st.res, (IF st.line = <<>> THEN start ELSE st.line) \o t),
                indent |-> st.indent, line |-> <<>>]
          [] OTHER ->
               [res |-> st.res, indent |-> st.indent,
                line |-> IF st.line = <<>> THEN Tabs(st.indent) \o t ELSE st.line \o <<" ">> \o t]

RECURSIVE Rules(_, _, _)
\* The state after a left-to-right pass of the rules over the token texts.
Rules(tokens, n, indentAll) ==
    IF n = 0 THEN [res |-> <<>>, indent |-> 0, line |-> <<>>]
    ELSE Rule(Rules(tokens, n - 1, indentAll), tokens[n].text, indentAll)

TestsNamed == {Test_enum_tokens, Test_struct_tokens, Test_nested_tokens, Test_typeref_tokens}

\* C9 as claimed: the lines returned are those of the rules, where only
\* '}' and ordinary tokens are put after the indentation of an empty line.
C9_FormatByRules ==
    fmt.pc = "done" =>
       /\ fmt.res = Flushed(Rules(fmt.tokens, Len(fmt.tokens), FALSE))
       /\ fmt.tokens \in TestsNamed => fmt.res = Asserted(fmt.tokens)

\* C9 amended: every token that starts a line, '{', ';' and ',' included, is
\* put after one tab per indentation level.
C9_FormatByRulesIndentAll ==
    fmt.pc = "done" =>
       /\ fmt.res = Flushed(Rules(fmt.tokens, Len(fmt.tokens), TRUE))
       /\ fmt.tokens \in TestsNamed => fmt.res = Asserted(fmt.tokens)

C9_Witness ==
    /\ fmt.pc = "done"
    /\ fmt.tokens \notin TestTokens
    /\ \E a, b, c \in 1..Len(fmt.res) :
          /\ fmt.res[a] = <<"\t", "{">>
          /\ fmt.res[b] = <<"\t", "\t", ";">>
          /\ fmt.res[c] = <<"\t", "}", " ">> \o I

RECURSIVE Flatten(_)
Flatten(lines) == IF lines = <<>> THEN <<>> ELSE lines[1] \o Flatten(Tail(lines))

\* The characters of the tokens, in input order.
TokenChars(tokens) == Flatten([k \in 1..Len(tokens) |-> tokens[k].text])

\* The characters of the lines but the spaces and tabs.
InkOf(lines) == SelectSeq(Flatten(lines), LAMBDA ch : ch \notin {" ", "\t"})

\* Braces open before token k, computed without a floor.
RECURSIVE Balance(_, _)
Balance(tokens, k) ==
    IF k = 0 THEN 0
    ELSE Balance(tokens, k - 1)
           + (IF tokens[k].text = <<"{">> THEN 1 ELSE IF tokens[k].text = <<"}">> THEN -1 ELSE 0)

Unbalanced(tokens) ==
    \/ \E k \in 1..Len(tokens) : Balance(tokens, k) < 0
    \/ Balance(tokens, Len(tokens)) > 0

FormatSafe ==
    /\ fmt.indent >= 0
    /\ fmt.pc = "done" \/ ENABLED FmtNext
    /\ fmt.pc = "done" =>
          /\ InkOf(fmt.res) = TokenChars(fmt.tokens)
          /\ \A k \in 1..Len(fmt.res) : InkOf(<<fmt.res[k]>>) # <<>>

ClosingAtZeroStays ==
    (/\ fmt.pc = "loop" /\ fmt.pos < Len(fmt.tokens)
     /\ fmt.tokens[fmt.pos + 1].text = <<"}">>
     /\ fmt.indent = 0
     /\ fmt' # fmt)
       => fmt'.indent = 0 /\ fmt'.pos = fmt.pos + 1

\* C10: on unbalanced braces (as on any sequence) the pass completes, the
\* indentation is never below zero, a '}' at level zero leaves it there, and
\* the lines returned hold every token, in input order.
C10_UnbalancedSafe == [](fmt.pc # "idle" => FormatSafe) /\ [][ClosingAtZeroStays]_vars

C10_Witness ==
    /\ fmt.pc = "done"
    /\ fmt.tokens \notin TestTokens
    /\ Unbalanced(fmt.tokens)
    /\ \E k \in 1..Len(fmt.tokens) : Balance(fmt.tokens, k) < 0
    /\ fmt.tokens[Len(fmt.tokens)].kind = "TypeRef"
    /\ fmt.indent > 0

====
